---- MODULE Spec2Model ----
(***************************************************************************)
(* Model of the co-watch-sync signaling server (two variants of the same   *)
(* socket.io server: src/unnamed/part_000, the CommonJS file, and          *)
(* src/unnamed/part_001, the ES-module file) and of the WebRTCManager       *)
(* client (src/src/lib/webrtc.ts): its signaling handlers, whose awaited   *)
(* peer connection operations settle one at a time, its connection status  *)
(* reports, its data channel methods and disconnect().                     *)
(*                                                                         *)
(* A JavaScript Map is a sequence in insertion order: Map.set of a key     *)
(* that is present keeps its position, Map.delete removes the entry.       *)
(* socket.io keeps, apart from the server's own `rooms` registry, a        *)
(* transport-level room membership per socket (socket.rooms), and that is  *)
(* what socket.to(roomId).emit addresses. Every socket is always a member  *)
(* of the room named by its own id; room ids sent by clients are taken     *)
(* from a namespace disjoint from socket ids. The joinedAt timestamp of a  *)
(* user entry is never read by the server and is left out.                 *)
(***************************************************************************)
EXTENDS Integers, Sequences, FiniteSets, TLC

\* Number of socket connections the server accepts during a run.
MaxConns == 3

\* Number of client events (join-room, leave-room, offer, answer,
\* ice-candidate) the server handles during a run.
MaxEvents == 3

Conns == 1..MaxConns
NoConn == 0

Variants == {"part_000", "part_001"}
RoomIds == {"abc123", "xyz789"}
\* The username a connection's client sends in join-room (one WebRTCManager,
\* with one username, per socket); "" stands for a missing one.
ClientUsername(c) == IF c = 1 THEN "Alice" ELSE IF c = 2 THEN "Bob" ELSE ""
\* Outcomes of `User${Math.floor(Math.random() * 1000)}`.
DefaultUsernames == {"User0", "User999"}
\* Opaque SDP / ICE payloads.
Payloads == {"p1", "p2"}
RelayEvents == {"offer", "answer", "ice-candidate"}

VARIABLES
    variant,     \* which server file is running
    conn,        \* per connection: "new", "open", "closing", "closed"
    sockRooms,   \* socket.rooms of each connection, without its own-id room
    rooms,       \* the `rooms` Map: sequence of [roomId, users, peersCount]
    out,         \* what the handler that ran last emitted, in order
    req,         \* the event that handler was given
    readySent,   \* rooms for which ready-to-connect went out to the pair they hold
    handled      \* number of client events handled so far

\* The WebRTCManager instances of one session (src/src/lib/webrtc.ts): the
\* page makes one with isHost = true for the user who creates the room and
\* one with isHost = false for the user who joins it.
Peers == {"H", "G"}
Other(p) == IF p = "H" THEN "G" ELSE "H"
IsHost(p) == p = "H"

\* Number of events the environment of one instance (signaling server,
\* browser transport, socket transport) raises during a run.
MaxClientEvents == 4

\* Number of sendMessage and syncPlayer calls during a run.
MaxSends == 2

\* Number of ICE candidates the browser gathers for one peer connection.
MaxCandidates == 1

VARIABLES
    client,      \* per instance: the fields of WebRTCManager and of the
                 \* browser objects they hold, and what the instance has done
    inbox,       \* per instance: signaling events on their way to its socket
    wire,        \* per instance: strings on their way to its data channel
    did,         \* what the client step that ran last did, in order
    call,        \* the handler or method that step ran
    events       \* number of environment events raised so far

serverVars == <<variant, conn, sockRooms, rooms, out, req, readySent, handled>>
clientVars == <<client, inbox, wire, did, call, events>>
vars == <<variant, conn, sockRooms, rooms, out, req, readySent, handled,
          client, inbox, wire, did, call, events>>

\* An RTCSessionDescription; the unset one is JavaScript's null.
Desc(type, sdp) == [type |-> type, sdp |-> sdp]
NoDesc == Desc("null", "")

\* new WebRTCManager(roomId, isHost): only roomId, isHost, username and
\* peersCount are set; socket, peerConnection and dataChannel are null.
\* The fields after `chain` are not fields of the class: chain is the
\* operations chain of the RTCPeerConnection, status is what the instance
\* last passed to onConnectionChange, and the rest counts what it has done.
Constructed(username) ==
    [ socket            |-> "null",
      peerConnection    |-> "null",   \* else its connectionState
      signalingState    |-> "null",
      localDescription  |-> NoDesc,
      remoteDescription |-> NoDesc,
      dataChannel       |-> "null",   \* else its readyState
      peersCount        |-> 0,
      username          |-> username,
      chain             |-> <<>>,
      status            |-> "none",
      readyReceived     |-> 0,
      offersSent        |-> 0,
      answersSent       |-> 0,
      transportLost     |-> FALSE,
      entered           |-> 0,
      sentChats         |-> <<>>,
      gotChats          |-> <<>>,
      iceGatheringState |-> "new",
      gathered          |-> 0,
      added             |-> 0,
      player            |-> "null",   \* the page's playerRef.current: its state
      playerEvents      |-> <<>> ]    \* state changes the player has yet to report

NoCall == [p |-> "", name |-> ""]

\* Both instances constructed, initialize() not yet called.
ClientInit(usernames) ==
    /\ client = [p \in Peers |-> Constructed(usernames[p])]
    /\ inbox = [p \in Peers |-> <<>>]
    /\ wire = [p \in Peers |-> <<>>]
    /\ did = <<>>
    /\ call = NoCall
    /\ events = 0

----------------------------------------------------------------------------
\* Map helpers

RoomIndex(rms, roomId) ==
    IF \E i \in 1..Len(rms) : rms[i].roomId = roomId
    THEN CHOOSE i \in 1..Len(rms) : rms[i].roomId = roomId
    ELSE 0

HasRoom(rms, roomId) == RoomIndex(rms, roomId) # 0

getRoom(rms, roomId) == rms[RoomIndex(rms, roomId)]

getOrCreateRoom(rms, roomId) ==
    IF ~HasRoom(rms, roomId)
    THEN Append(rms, [roomId |-> roomId, users |-> <<>>, peersCount |-> 0])
    ELSE rms

UserIds(users) == {users[i].id : i \in 1..Len(users)}

UsersHas(users, id) == id \in UserIds(users)

UsersGet(users, id) == users[CHOOSE i \in 1..Len(users) : users[i].id = id]

UsersSet(users, id, username, isHost) ==
    LET entry == [id |-> id, username |-> username, isHost |-> isHost]
    IN IF UsersHas(users, id)
       THEN [i \in 1..Len(users) |-> IF users[i].id = id THEN entry ELSE users[i]]
       ELSE Append(users, entry)

UsersDelete(users, id) ==
    LET keep(u) == u.id # id IN SelectSeq(users, keep)

RoomsDelete(rms, roomId) ==
    LET keep(r) == r.roomId # roomId IN SelectSeq(rms, keep)

RoomsPut(rms, room) ==
    [i \in 1..Len(rms) |-> IF rms[i].roomId = room.roomId THEN room ELSE rms[i]]

----------------------------------------------------------------------------
\* Emissions

Msg(ev, to, room, peerId, peersCount, username, isHost, payload) ==
    [ev |-> ev, to |-> to, room |-> room, peerId |-> peerId,
     peersCount |-> peersCount, username |-> username, isHost |-> isHost,
     payload |-> payload]

\* socket.to(roomId): the sockets in the transport room, except the sender.
SocketTo(sr, s, roomId) == {c \in Conns : roomId \in sr[c]} \ {s}

\* io.to(id): the sockets in the room named by a socket id.
IoTo(id) == {c \in Conns : c = id /\ conn[c] \in {"open", "closing"}}

Req(op, c, roomId, isHost, username, payload) ==
    [op |-> op, c |-> c, roomId |-> roomId, isHost |-> isHost,
     username |-> username, payload |-> payload]

----------------------------------------------------------------------------
\* Registry steps shared by the handlers

\* AddUser with the peersCount assignment left out.
AddUserStaleCount(room, id, username, isHost) ==
    [room EXCEPT !.users = UsersSet(room.users, id, username, isHost)]

\* room.users.set(socket.id, {...}); room.peersCount = room.users.size
AddUser(room, id, username, isHost) ==
    LET users == UsersSet(room.users, id, username, isHost)
    IN [room EXCEPT !.users = users, !.peersCount = Len(users)]

\* RemoveUser with the peersCount assignment left out.
RemoveUserStaleCount(room, id) ==
    [room EXCEPT !.users = UsersDelete(room.users, id)]

\* room.users.delete(socket.id); room.peersCount = room.users.size
RemoveUser(room, id) ==
    LET users == UsersDelete(room.users, id)
    IN [room EXCEPT !.users = users, !.peersCount = Len(users)]

\* FindHost taking the last host of the Map instead of the first.
FindLastHost(users) ==
    IF \E i \in 1..Len(users) : users[i].isHost
    THEN LET last == CHOOSE i \in 1..Len(users) :
                         /\ users[i].isHost
                         /\ \A j \in (i + 1)..Len(users) : ~users[j].isHost
         IN users[last].id
    ELSE NoConn

\* [...room.users.entries()].find(([, user]) => user.isHost)?.[0]
FindHost(users) ==
    IF \E i \in 1..Len(users) : users[i].isHost
    THEN LET first == CHOOSE i \in 1..Len(users) :
                          /\ users[i].isHost
                          /\ \A j \in 1..(i - 1) : ~users[j].isHost
         IN users[first].id
    ELSE NoConn

ReadyToConnectAtLeastTwo(room) ==
    IF room.peersCount >= 2 /\ FindHost(room.users) # NoConn
    THEN <<Msg("ready-to-connect", IoTo(FindHost(room.users)), room.roomId,
               NoConn, 0, "", FALSE, "")>>
    ELSE <<>>

\* if (room.peersCount === 2) { ... if (hostSocket) io.to(hostSocket).emit(...) }
ReadyToConnect(room) ==
    IF room.peersCount = 2 /\ FindHost(room.users) # NoConn
    THEN <<Msg("ready-to-connect", IoTo(FindHost(room.users)), room.roomId,
               NoConn, 0, "", FALSE, "")>>
    ELSE <<>>

\* the peer-left broadcast of leave-room and disconnect
PeerLeft(sr, id, room, username) ==
    Msg("peer-left", SocketTo(sr, id, room.roomId), room.roomId, id,
        room.peersCount, username, FALSE, "")

\* DeleteIfEmpty with the test written as peersCount <= 1.
DeleteIfLonely(rms, room) ==
    IF room.peersCount <= 1 THEN RoomsDelete(rms, room.roomId) ELSE rms

\* if (room.peersCount === 0) rooms.delete(roomId)
DeleteIfEmpty(rms, room) ==
    IF room.peersCount = 0 THEN RoomsDelete(rms, room.roomId) ELSE rms

ReadyRooms(o) == {o[i].room : i \in {j \in 1..Len(o) : o[j].ev = "ready-to-connect"}}

RoomOf(rms, roomId) ==
    IF HasRoom(rms, roomId) THEN getRoom(rms, roomId)
    ELSE [roomId |-> roomId, users |-> <<>>, peersCount |-> 0]

\* History: the rooms whose current pair of participants has been sent a
\* ready-to-connect. A room drops out when its set of participants changes.
NextReadySent(rms, o) ==
    {r \in RoomIds :
        /\ HasRoom(rms, r)
        /\ \/ r \in ReadyRooms(o)
           \/ /\ r \in readySent
              /\ UserIds(getRoom(rms, r).users) = UserIds(RoomOf(rooms, r).users)}

----------------------------------------------------------------------------
\* io.on("connection"): socket ids are fresh, so connections open in id order.
Connect(c) ==
    /\ conn[c] = "new"
    /\ UNCHANGED clientVars
    /\ req' = Req("connection", c, "", FALSE, "", "")
    /\ UNCHANGED handled
    /\ \A d \in Conns : d < c => conn[d] # "new"
    /\ conn' = [conn EXCEPT ![c] = "open"]
    /\ out' = <<>>
    /\ readySent' = NextReadySent(rooms, <<>>)
    /\ UNCHANGED <<variant, sockRooms, rooms>>

\* socket.on("join-room")
JoinRoom(c, roomId, isHost, username) ==
    /\ conn[c] = "open"
    /\ handled < MaxEvents
    /\ handled' = handled + 1
    /\ UNCHANGED clientVars
    /\ req' = Req("join-room", c, roomId, isHost, username, "")
    /\ \E name \in (IF username = "" THEN DefaultUsernames ELSE {username}) :
        LET sr   == [sockRooms EXCEPT ![c] = {roomId}]
            rms  == getOrCreateRoom(rooms, roomId)
            room == AddUser(getRoom(rms, roomId), c, name, isHost)
            o    == <<Msg("room-joined", {c}, roomId, NoConn, room.peersCount,
                          "", isHost, ""),
                      Msg("peer-joined", SocketTo(sr, c, roomId), roomId, c,
                          room.peersCount, UsersGet(room.users, c).username,
                          FALSE, "")>>
                    \o ReadyToConnect(room)
        IN /\ sockRooms' = sr
           /\ rooms' = RoomsPut(rms, room)
           /\ out' = o
           /\ readySent' = NextReadySent(RoomsPut(rms, room), o)
    /\ UNCHANGED <<variant, conn>>

\* Relay written with io.to(roomId): the sender gets its own message back.
RelayEcho(c, ev, roomId, payload) ==
    /\ conn[c] = "open"
    /\ handled < MaxEvents
    /\ handled' = handled + 1
    /\ UNCHANGED clientVars
    /\ req' = Req(ev, c, roomId, FALSE, "", payload)
    /\ out' = <<Msg(ev, {d \in Conns : roomId \in sockRooms[d]}, roomId, c, 0,
                    "", FALSE, payload)>>
    /\ readySent' = NextReadySent(rooms, <<>>)
    /\ UNCHANGED <<variant, conn, sockRooms, rooms>>

\* socket.on("offer" | "answer" | "ice-candidate")
Relay(c, ev, roomId, payload) ==
    /\ conn[c] = "open"
    /\ handled < MaxEvents
    /\ handled' = handled + 1
    /\ UNCHANGED clientVars
    /\ req' = Req(ev, c, roomId, FALSE, "", payload)
    /\ out' = <<Msg(ev, SocketTo(sockRooms, c, roomId), roomId, c, 0, "",
                    FALSE, payload)>>
    /\ readySent' = NextReadySent(rooms, <<>>)
    /\ UNCHANGED <<variant, conn, sockRooms, rooms>>

Offer(c, roomId, payload) == Relay(c, "offer", roomId, payload)
Answer(c, roomId, payload) == Relay(c, "answer", roomId, payload)
IceCandidate(c, roomId, payload) == Relay(c, "ice-candidate", roomId, payload)

\* socket.on("leave-room"), part_000: getRoomInfo creates a missing room and
\* the room is kept when its last user leaves.
LeaveRoom000(c, roomId) ==
    LET sr   == [sockRooms EXCEPT ![c] = @ \ {roomId}]
        rms  == getOrCreateRoom(rooms, roomId)
        room == getRoom(rms, roomId)
    IN /\ sockRooms' = sr
       /\ IF UsersHas(room.users, c)
          THEN LET user == UsersGet(room.users, c)
                   left == RemoveUser(room, c)
               IN /\ rooms' = RoomsPut(rms, left)
                  /\ out' = <<PeerLeft(sr, c, left, user.username)>>
                  /\ readySent' = NextReadySent(RoomsPut(rms, left), <<>>)
          ELSE /\ rooms' = rms
               /\ out' = <<>>
               /\ readySent' = NextReadySent(rms, <<>>)

\* socket.on("leave-room"), part_001
LeaveRoom001(c, roomId) ==
    IF ~HasRoom(rooms, roomId)
    THEN /\ out' = <<>>
         /\ readySent' = NextReadySent(rooms, <<>>)
         /\ UNCHANGED <<sockRooms, rooms>>
    ELSE LET sr   == [sockRooms EXCEPT ![c] = @ \ {roomId}]
             room == getRoom(rooms, roomId)
         IN /\ sockRooms' = sr
            /\ IF UsersHas(room.users, c)
               THEN LET user == UsersGet(room.users, c)
                        left == RemoveUser(room, c)
                        rms  == DeleteIfEmpty(RoomsPut(rooms, left), left)
                    IN /\ rooms' = rms
                       /\ out' = <<PeerLeft(sr, c, left, user.username)>>
                       /\ readySent' = NextReadySent(rms, <<>>)
               ELSE /\ out' = <<>>
                    /\ readySent' = NextReadySent(rooms, <<>>)
                    /\ UNCHANGED rooms

LeaveRoom(c, roomId) ==
    /\ conn[c] = "open"
    /\ handled < MaxEvents
    /\ handled' = handled + 1
    /\ UNCHANGED clientVars
    /\ req' = Req("leave-room", c, roomId, FALSE, "", "")
    /\ IF variant = "part_000" THEN LeaveRoom000(c, roomId)
                               ELSE LeaveRoom001(c, roomId)
    /\ UNCHANGED <<variant, conn>>

\* DisconnectScan returning after the first room the socket is found in.
RECURSIVE DisconnectScanFirst(_, _, _, _, _)
DisconnectScanFirst(all, i, c, sr, acc) ==
    IF i > Len(all) THEN acc
    ELSE LET room == all[i]
         IN IF UsersHas(room.users, c)
            THEN LET user == UsersGet(room.users, c)
                     left == [room EXCEPT !.users = UsersDelete(room.users, c),
                                          !.peersCount = Len(room.users) - 1]
                     rms  == IF left.peersCount = 0
                             THEN RoomsDelete(acc[1], left.roomId)
                             ELSE RoomsPut(acc[1], left)
                 IN <<rms, Append(acc[2],
                        Msg("peer-left", {d \in Conns : room.roomId \in sr[d]} \ {c},
                            room.roomId, c, left.peersCount, user.username,
                            FALSE, ""))>>
            ELSE DisconnectScanFirst(all, i + 1, c, sr, acc)

\* rooms.forEach((room, roomId) => ...) of the disconnect handler, from the
\* i-th entry of the Map as it was when the handler started; acc is the pair
\* <<rooms so far, emissions so far>>. Deleting the entry being visited does
\* not make forEach skip an entry.
RECURSIVE DisconnectScan(_, _, _, _, _)
DisconnectScan(all, i, c, sr, acc) ==
    IF i > Len(all) THEN acc
    ELSE LET room == all[i]
         IN IF UsersHas(room.users, c)
            THEN LET user == UsersGet(room.users, c)
                     left == RemoveUser(room, c)
                     rms  == DeleteIfEmpty(RoomsPut(acc[1], left), left)
                 IN DisconnectScan(all, i + 1, c, sr,
                        <<rms, Append(acc[2], PeerLeft(sr, c, left, user.username))>>)
            ELSE DisconnectScan(all, i + 1, c, sr, acc)

\* WebRTCManager.disconnect(): socket.disconnect(); also a dropped transport.
ClientDisconnect(c) ==
    /\ conn[c] = "open"
    /\ UNCHANGED clientVars
    /\ req' = Req("close", c, "", FALSE, "", "")
    /\ UNCHANGED handled
    /\ conn' = [conn EXCEPT ![c] = "closing"]
    /\ out' = <<>>
    /\ readySent' = NextReadySent(rooms, <<>>)
    /\ UNCHANGED <<variant, sockRooms, rooms>>

\* socket.on("disconnect"): socket.io has taken the socket out of all its
\* transport rooms before the event fires.
Disconnect(c) ==
    /\ conn[c] = "closing"
    /\ UNCHANGED clientVars
    /\ req' = Req("disconnect", c, "", FALSE, "", "")
    /\ UNCHANGED handled
    /\ LET sr  == [sockRooms EXCEPT ![c] = {}]
           res == DisconnectScan(rooms, 1, c, sr, <<rooms, <<>> >>)
       IN /\ sockRooms' = sr
          /\ rooms' = res[1]
          /\ out' = res[2]
          /\ readySent' = NextReadySent(res[1], <<>>)
    /\ conn' = [conn EXCEPT ![c] = "closed"]
    /\ UNCHANGED variant

----------------------------------------------------------------------------
Init ==
    /\ variant \in Variants
    /\ conn = [c \in Conns |-> "new"]
    /\ sockRooms = [c \in Conns |-> {}]
    /\ rooms = <<>>
    /\ out = <<>>
    /\ readySent = {}
    /\ req = Req("listen", NoConn, "", FALSE, "", "")
    /\ handled = 0
    /\ ClientInit([p \in Peers |-> "User0"])

Next ==
    \/ \E c \in Conns : Connect(c)
    \/ \E c \in Conns, r \in RoomIds, h \in BOOLEAN :
           JoinRoom(c, r, h, ClientUsername(c))
    \/ \E c \in Conns, r \in RoomIds, p \in Payloads : Offer(c, r, p)
    \/ \E c \in Conns, r \in RoomIds, p \in Payloads : Answer(c, r, p)
    \/ \E c \in Conns, r \in RoomIds, p \in Payloads : IceCandidate(c, r, p)
    \/ \E c \in Conns, r \in RoomIds : LeaveRoom(c, r)
    \/ \E c \in Conns : ClientDisconnect(c)
    \/ \E c \in Conns : Disconnect(c)

Spec == Init /\ [][Next]_vars

\* The server driven by WebRTCManager clients: initialize() sends one
\* join-room per socket, the signaling handlers send offer, answer and
\* ice-candidate with the roomId of that join, and nothing sends leave-room.
ClientJoin(c, roomId, isHost) ==
    /\ sockRooms[c] = {}
    /\ \A i \in 1..Len(rooms) : ~UsersHas(rooms[i].users, c)
    /\ JoinRoom(c, roomId, isHost, ClientUsername(c))

ClientOffer(c, payload) == \E r \in sockRooms[c] : Offer(c, r, payload)
ClientAnswer(c, payload) == \E r \in sockRooms[c] : Answer(c, r, payload)
ClientIceCandidate(c, payload) == \E r \in sockRooms[c] : IceCandidate(c, r, payload)

SessionNext ==
    \/ \E c \in Conns : Connect(c)
    \/ \E c \in Conns, r \in RoomIds, h \in BOOLEAN : ClientJoin(c, r, h)
    \/ \E c \in Conns, p \in Payloads : ClientOffer(c, p)
    \/ \E c \in Conns, p \in Payloads : ClientAnswer(c, p)
    \/ \E c \in Conns, p \in Payloads : ClientIceCandidate(c, p)
    \/ \E c \in Conns : ClientDisconnect(c)
    \/ \E c \in Conns : Disconnect(c)

\* Fairness: while the transport of some socket has closed and its disconnect
\* event is pending, the server's event loop goes on to fire such an event.
SessionSpec ==
    Init /\ [][SessionNext]_vars /\ WF_vars(\E c \in Conns : Disconnect(c))

----------------------------------------------------------------------------
\* WebRTCManager (src/src/lib/webrtc.ts). Each handler below sets client,
\* wire, did and call; the specification that runs it says where its event
\* came from (inbox) and whether it counts as an environment event (events).

\* One thing a client step did: a callback it invoked, an event it emitted
\* on the signaling socket, or a call it made on a browser object.
Effect(p, op, arg, n, desc, text, sender) ==
    [p |-> p, op |-> op, arg |-> arg, n |-> n, desc |-> desc, text |-> text,
     sender |-> sender]

\* this.callbacks?.onConnectionChange(status, peersCount)
Report(p, status, n) == Effect(p, "onConnectionChange", status, n, NoDesc, <<>>, "")

\* this.socket?.emit(ev, {roomId, ...})
Emit(p, ev, desc) == Effect(p, "emit", ev, 0, desc, <<>>, "")

\* A call on a browser object: dataChannel.send, dataChannel.close, ...
Does(p, op, arg) == Effect(p, op, arg, 0, NoDesc, <<>>, "")

Call(p, name) == [p |-> p, name |-> name]

\* The page's onConnectionChange callback keeps the status it was given
\* (setConnectionStatus); entered counts the changes of status to 'connected',
\* transportLost records a report made for a lost transport.
Shown(inst, status) ==
    [inst EXCEPT !.status = status,
                 !.entered = IF status = "connected" /\ inst.status # "connected"
                             THEN @ + 1 ELSE @]

\* initialize(callbacks): socket, peer connection, data channel on the host
\* and ondatachannel on the guest, handlers, then join-room (which socket.io
\* holds back until the socket has connected).
Initialize(p) ==
    /\ client[p].socket = "null"
    /\ client' = [client EXCEPT ![p].socket = "connecting",
                                ![p].peerConnection = "new",
                                ![p].signalingState = "stable",
                                ![p].dataChannel =
                                    IF IsHost(p) THEN "connecting" ELSE "null"]
    /\ did' = <<Emit(p, "join-room", NoDesc)>>
    /\ call' = Call(p, "initialize")
    /\ UNCHANGED wire

\* socket.on('connect'); also fires when socket.io has reconnected.
SocketConnect(p) ==
    /\ client[p].socket = "connecting"
    /\ client' = [client EXCEPT ![p] = Shown([@ EXCEPT !.socket = "connected"],
                                             "connecting")]
    /\ did' = <<Report(p, "connecting", 0)>>
    /\ call' = Call(p, "connect")
    /\ UNCHANGED wire

\* socket.on('disconnect') for a transport that dropped: socket.io goes on
\* to reconnect.
SocketDrop(p) ==
    /\ client[p].socket = "connected"
    /\ client' = [client EXCEPT ![p] = Shown([@ EXCEPT !.socket = "connecting"],
                                             "disconnected")]
    /\ did' = <<Report(p, "disconnected", 0)>>
    /\ call' = Call(p, "disconnect")
    /\ UNCHANGED wire

\* The connectionState values the browser can move the peer connection to:
\* connectivity checks need the local and the remote description, they
\* succeed or fail, and a disconnected transport can recover or fail.
TransportNext(inst) ==
    LET st   == inst.peerConnection
        both == inst.localDescription # NoDesc /\ inst.remoteDescription # NoDesc
    IN IF st = "new" THEN (IF both THEN {"connecting"} ELSE {})
       ELSE IF st = "connecting" THEN {"connected", "failed"}
       ELSE IF st = "connected" THEN {"disconnected", "failed"}
       ELSE IF st = "disconnected" THEN {"connected", "failed"}
       ELSE {}

\* peerConnection.onconnectionstatechange
OnConnectionStateChange(p, state) ==
    /\ state \in TransportNext(client[p])
    /\ LET inst == [client[p] EXCEPT !.peerConnection = state]
       IN IF state = "connected"
          THEN /\ client' = [client EXCEPT ![p] = Shown(inst, "connected")]
               /\ did' = <<Report(p, "connected", inst.peersCount)>>
          ELSE IF state \in {"disconnected", "failed"}
          THEN /\ client' = [client EXCEPT ![p] =
                                Shown([inst EXCEPT !.transportLost = TRUE],
                                      "disconnected")]
               /\ did' = <<Report(p, "disconnected", 0)>>
          ELSE /\ client' = [client EXCEPT ![p] = inst]
               /\ did' = <<>>
    /\ call' = Call(p, "connectionstatechange")
    /\ UNCHANGED wire

\* peerConnection.ondatachannel on the guest: the channel the host created
\* is announced once the transport is up.
OnDataChannel(p) ==
    /\ ~IsHost(p)
    /\ client[p].peerConnection = "connected"
    /\ client[p].dataChannel = "null"
    /\ client' = [client EXCEPT ![p].dataChannel = "connecting"]
    /\ did' = <<>>
    /\ call' = Call(p, "datachannel")
    /\ UNCHANGED wire

\* channel.onopen
ChannelOpen(p) ==
    /\ client[p].dataChannel = "connecting"
    /\ client[p].peerConnection = "connected"
    /\ client' = [client EXCEPT ![p] = Shown([@ EXCEPT !.dataChannel = "open"],
                                             "connected")]
    /\ did' = <<Report(p, "connected", client[p].peersCount)>>
    /\ call' = Call(p, "open")
    /\ UNCHANGED wire

\* channel.onclose: the other side closed the channel, the transport went
\* away, or the instance closed it itself.
ChannelClose(p) ==
    /\ client[p].dataChannel \in {"open", "closing"}
    /\ client' = [client EXCEPT ![p] = Shown([@ EXCEPT !.dataChannel = "closed"],
                                             "disconnected")]
    /\ did' = <<Report(p, "disconnected", 0)>>
    /\ call' = Call(p, "close")
    /\ UNCHANGED wire

\* Descriptions and peersCount values a signaling event can carry.
RemoteOffers == {Desc("offer", sdp) : sdp \in Payloads}
RemoteAnswers == {Desc("answer", sdp) : sdp \in Payloads}
PeerCounts == 0..3

\* The description createOffer or createAnswer of p's peer connection makes.
LocalDesc(p, type) == Desc(type, IF IsHost(p) THEN "sdp-H" ELSE "sdp-G")

Max(a, b) == IF a > b THEN a ELSE b

\* socket.on('room-joined')
OnRoomJoined(p, peersCount) ==
    /\ client[p].socket = "connected"
    /\ client' = [client EXCEPT ![p].peersCount = peersCount - 1]
    /\ did' = <<>>
    /\ call' = Call(p, "room-joined")
    /\ UNCHANGED wire

\* socket.on('peer-joined')
OnPeerJoined(p, peersCount) ==
    /\ client[p].socket = "connected"
    /\ client' = [client EXCEPT ![p] = Shown([@ EXCEPT !.peersCount = peersCount - 1],
                                             "connecting")]
    /\ did' = <<Report(p, "connecting", peersCount - 1)>>
    /\ call' = Call(p, "peer-joined")
    /\ UNCHANGED wire

\* socket.on('peer-left')
OnPeerLeft(p, peersCount) ==
    /\ client[p].socket = "connected"
    /\ LET n == Max(0, peersCount - 1)
           status == IF n > 0 THEN "connected" ELSE "disconnected"
       IN /\ client' = [client EXCEPT ![p] = Shown([@ EXCEPT !.peersCount = n],
                                                   status)]
          /\ did' = <<Report(p, status, n)>>
    /\ call' = Call(p, "peer-left")
    /\ UNCHANGED wire

\* peerConnection.onicecandidate: the browser surfaces the candidates it
\* gathers once a local description is set, and ends the gathering with an
\* event whose candidate is null; the handler emits the candidates.
OnLocalIceCandidate(p, isNull) ==
    /\ client[p].peerConnection \notin {"null", "closed"}
    /\ client[p].localDescription # NoDesc
    /\ client[p].iceGatheringState # "complete"
    /\ IF isNull
       THEN /\ client' = [client EXCEPT ![p].iceGatheringState = "complete"]
            /\ did' = <<>>
       ELSE /\ client[p].gathered < MaxCandidates
            /\ client' = [client EXCEPT ![p].gathered = @ + 1]
            /\ did' = <<Emit(p, "ice-candidate", LocalDesc(p, "candidate"))>>
    /\ call' = Call(p, "icecandidate")
    /\ UNCHANGED wire

\* An operation a handler has called on the peer connection and awaits:
\* the browser runs the operations of one peer connection one at a time, in
\* the order they were called (its operations chain).
Pending(kind, op, desc) == [kind |-> kind, op |-> op, desc |-> desc]

\* socket.on('offer'), up to its first await.
OnOffer(p, offer) ==
    /\ client[p].socket = "connected"
    /\ client' = [client EXCEPT ![p].chain =
                      Append(@, Pending("offer", "setRemoteDescription", offer))]
    /\ did' = <<>>
    /\ call' = Call(p, "offer")
    /\ UNCHANGED wire

\* Mutant of OnAnswer: the handler does not set the remote description.
OnAnswerIgnored(p, answer) ==
    /\ client[p].socket = "connected"
    /\ client' = client
    /\ did' = <<>>
    /\ call' = Call(p, "answer")
    /\ UNCHANGED wire

\* socket.on('answer'), up to its await.
OnAnswer(p, answer) ==
    /\ client[p].socket = "connected"
    /\ client' = [client EXCEPT ![p].chain =
                      Append(@, Pending("answer", "setRemoteDescription", answer))]
    /\ did' = <<>>
    /\ call' = Call(p, "answer")
    /\ UNCHANGED wire

\* socket.on('ice-candidate'), up to its await.
OnIceCandidate(p, candidate) ==
    /\ client[p].socket = "connected"
    /\ client' = [client EXCEPT ![p].chain =
                      Append(@, Pending("ice-candidate", "addIceCandidate",
                                        Desc("candidate", candidate)))]
    /\ did' = <<>>
    /\ call' = Call(p, "ice-candidate")
    /\ UNCHANGED wire

\* Mutant of OnReadyToConnect: the isHost test is left out.
OnReadyToConnectAnyone(p) ==
    /\ client[p].socket = "connected"
    /\ client' = [client EXCEPT
           ![p].readyReceived = @ + 1,
           ![p].chain = IF client[p].peerConnection # "null"
                        THEN Append(@, Pending("ready-to-connect", "createOffer", NoDesc))
                        ELSE @]
    /\ did' = <<>>
    /\ call' = Call(p, "ready-to-connect")
    /\ UNCHANGED wire

\* socket.on('ready-to-connect'), up to its first await.
OnReadyToConnect(p) ==
    /\ client[p].socket = "connected"
    /\ client' = [client EXCEPT
           ![p].readyReceived = @ + 1,
           ![p].chain = IF IsHost(p) /\ client[p].peerConnection # "null"
                        THEN Append(@, Pending("ready-to-connect", "createOffer", NoDesc))
                        ELSE @]
    /\ did' = <<>>
    /\ call' = Call(p, "ready-to-connect")
    /\ UNCHANGED wire

\* Whether the browser can carry out the operation t on the peer connection
\* of inst: a closed connection rejects everything, an answer needs a local
\* offer, createAnswer and a local answer need a remote offer, a candidate
\* needs a remote description. A remote offer on top of a local one is
\* either rejected or rolls the local offer back, by browser.
Possible(inst, t) ==
    /\ inst.peerConnection \notin {"null", "closed"}
    /\ IF t.op = "setRemoteDescription"
       THEN t.desc.type = "offer" \/ inst.signalingState = "have-local-offer"
       ELSE IF t.op = "createAnswer"
       THEN inst.signalingState = "have-remote-offer"
       ELSE IF t.op = "setLocalDescription"
       THEN IF t.desc.type = "answer"
            THEN inst.signalingState = "have-remote-offer"
            ELSE inst.signalingState \in {"stable", "have-local-offer"}
       ELSE IF t.op = "addIceCandidate"
       THEN inst.remoteDescription # NoDesc
       ELSE TRUE

\* The awaited operation at the head of the chain of inst was carried out:
\* the handler that awaited it goes on to its next await or to its end.
\* Gives the instance and what the handler did.
Resolved(p, inst, t) ==
    LET rest == Tail(inst.chain)
    IN IF t.op = "setRemoteDescription" /\ t.kind = "offer"
       THEN <<[inst EXCEPT !.remoteDescription = t.desc,
                           !.localDescription =
                               IF inst.signalingState = "have-local-offer"
                               THEN NoDesc ELSE @,
                           !.signalingState = "have-remote-offer",
                           !.chain = Append(rest, Pending("offer", "createAnswer", NoDesc))],
              <<>> >>
       ELSE IF t.op = "createAnswer"
       THEN <<[inst EXCEPT !.chain = Append(rest,
                   Pending("offer", "setLocalDescription", LocalDesc(p, "answer")))],
              <<>> >>
       ELSE IF t.op = "setLocalDescription" /\ t.kind = "offer"
       THEN <<[inst EXCEPT !.localDescription = t.desc,
                           !.signalingState = "stable",
                           !.answersSent = @ + 1,
                           !.chain = rest],
              <<Emit(p, "answer", t.desc)>> >>
       ELSE IF t.op = "setRemoteDescription"
       THEN <<[inst EXCEPT !.remoteDescription = t.desc,
                           !.signalingState = "stable",
                           !.chain = rest],
              <<>> >>
       ELSE IF t.op = "createOffer"
       THEN <<[inst EXCEPT !.chain = Append(rest,
                   Pending("ready-to-connect", "setLocalDescription",
                           LocalDesc(p, "offer")))],
              <<>> >>
       ELSE IF t.op = "setLocalDescription"
       THEN <<[inst EXCEPT !.localDescription = t.desc,
                           !.signalingState = "have-local-offer",
                           !.offersSent = @ + 1,
                           !.chain = rest],
              <<Emit(p, "offer", t.desc)>> >>
       ELSE <<[inst EXCEPT !.added = @ + 1, !.chain = rest], <<>> >>

\* Mutant of Rejected: the offer handler sends its answer from the catch
\* block as well.
RejectedButAnswers(p, inst, t) ==
    IF t.kind = "offer"
    THEN <<[inst EXCEPT !.chain = Tail(@), !.answersSent = @ + 1],
           <<Does(p, "console.error", t.kind),
             Emit(p, "answer", LocalDesc(p, "answer"))>> >>
    ELSE <<[inst EXCEPT !.chain = Tail(@)], <<Does(p, "console.error", t.kind)>> >>

\* Mutant of Rejected: the catch block reports 'disconnected' as well.
RejectedAndReports(p, inst, t) ==
    <<Shown([inst EXCEPT !.chain = Tail(@)], "disconnected"),
      <<Does(p, "console.error", t.kind), Report(p, "disconnected", 0)>> >>

\* The awaited operation was rejected: the catch block of the handler logs
\* the error and the handler ends.
Rejected(p, inst, t) ==
    <<[inst EXCEPT !.chain = Tail(@)], <<Does(p, "console.error", t.kind)>> >>

\* The browser settles the operation at the head of the operations chain of
\* p's peer connection, and the handler awaiting it runs to its next await.
Settle(p, ok) ==
    /\ client[p].chain # <<>>
    /\ LET t == Head(client[p].chain)
           r == IF ok THEN Resolved(p, client[p], t) ELSE Rejected(p, client[p], t)
       IN /\ ok => Possible(client[p], t)
          /\ client' = [client EXCEPT ![p] = r[1]]
          /\ did' = r[2]
          /\ call' = Call(p, t.op)
    /\ UNCHANGED wire

\* Strings that go through JSON are sequences of characters; a run of
\* characters that JSON leaves alone is written as one element.
Texts == {<<"hi">>, <<"say ", "\"", "a", "\\", "b", "\"">>}
SyncActions == {"play", "pause"}
Now == <<"2025-01-01T00:00:00.000Z">>
CurrentTime == <<"42.5">>
VideoId == <<"dQw4w9WgXcQ">>
Undefined == <<"undefined">>

\* JSON.stringify of a string, without the enclosing quotes: a quote and a
\* backslash get a backslash in front.
RECURSIVE Escape(_)
Escape(str) ==
    IF str = <<>> THEN <<>>
    ELSE (IF Head(str) \in {"\"", "\\"} THEN <<"\\", Head(str)>> ELSE <<Head(str)>>)
         \o Escape(Tail(str))

\* Whether every backslash of a JSON string body has a character after it.
RECURSIVE WellEscaped(_)
WellEscaped(body) ==
    IF body = <<>> THEN TRUE
    ELSE IF Head(body) = "\\"
         THEN Len(body) >= 2 /\ WellEscaped(SubSeq(body, 3, Len(body)))
         ELSE Head(body) # "\"" /\ WellEscaped(Tail(body))

\* Mutant of Unescape: backslashes are kept.
UnescapeKeeps(body) == body

\* The string a well-escaped JSON string body stands for.
RECURSIVE Unescape(_)
Unescape(body) ==
    IF body = <<>> THEN <<>>
    ELSE IF Head(body) = "\\"
         THEN <<body[2]>> \o Unescape(SubSeq(body, 3, Len(body)))
         ELSE <<Head(body)>> \o Unescape(Tail(body))

\* JSON.stringify of an object whose values are strings, as the sequence of
\* its members <<key, string body>>; a member of the nested `data` object
\* of a player-sync message has the key "data.<name>".
Stringify(obj) == [i \in 1..Len(obj) |-> <<obj[i][1], Escape(obj[i][2])>>]

\* JSON.parse: whether it returns, and the object it returns.
Parses(str) == \A i \in 1..Len(str) : WellEscaped(str[i][2])
Parse(str) == [i \in 1..Len(str) |-> <<str[i][1], Unescape(str[i][2])>>]

\* obj[key]; of two members with one key the later one counts.
Get(obj, key) ==
    LET at == {i \in 1..Len(obj) : obj[i][1] = key}
    IN IF at = {} THEN Undefined
       ELSE obj[CHOOSE i \in at : \A j \in at : j <= i][2]

\* The object sendMessage builds.
ChatMessage(text, sender) ==
    << <<"type", <<"chat">> >>, <<"text", text>>, <<"sender", <<sender>> >>,
       <<"timestamp", Now>> >>

\* The object syncPlayer builds from the player's event: {action, ...data}.
SyncMessage(action) ==
    << <<"type", <<"player-sync">> >>, <<"data.action", <<action>> >>,
       <<"data.currentTime", CurrentTime>>, <<"data.videoId", VideoId>> >>

\* Mutant of Transmit: send is called whatever the readyState is.
TransmitAlways(p, str, kind) ==
    /\ wire' = [wire EXCEPT ![Other(p)] = Append(@, str)]
    /\ did' = <<Does(p, "dataChannel.send", kind)>>

\* The readyState test of sendMessage and syncPlayer, and the send.
Transmit(p, str, kind) ==
    IF client[p].dataChannel = "open"
    THEN /\ wire' = [wire EXCEPT ![Other(p)] = Append(@, str)]
         /\ did' = <<Does(p, "dataChannel.send", kind)>>
    ELSE /\ wire' = wire
         /\ did' = <<>>

\* sendMessage(text)
SendMessage(p, text) ==
    /\ Transmit(p, Stringify(ChatMessage(text, client[p].username)), "chat")
    /\ client' = [client EXCEPT ![p].sentChats =
                      IF client[p].dataChannel = "open" THEN Append(@, text) ELSE @]
    /\ call' = Call(p, "sendMessage")

\* syncPlayer(action, data)
SyncPlayer(p, action) ==
    /\ Transmit(p, Stringify(SyncMessage(action)), "player-sync")
    /\ call' = Call(p, "syncPlayer")
    /\ UNCHANGED client

\* message.data of a parsed message: the members of the nested object, under
\* their own names (a member of an object nested in it keeps one prefix).
DataMember ==
    ("data.action" :> "action") @@ ("data.currentTime" :> "currentTime")
    @@ ("data.videoId" :> "videoId")
    @@ ("data.data.currentTime" :> "data.currentTime")
    @@ ("data.data.videoId" :> "data.videoId")
IsDataMember(m) == m[1] \in DOMAIN DataMember
MessageData(message) ==
    LET members == SelectSeq(message, IsDataMember)
    IN [i \in 1..Len(members) |-> <<DataMember[members[i][1]], members[i][2]>>]

\* if (value): undefined, 0 and the empty string do not count.
Truthy(value) == value \notin {Undefined, <<"0">>, <<>>}

\* YouTubePlayer's listener of youtube-sync. `const { action, data } =
\* event.detail` takes the members action and data of the detail; reading a
\* property of data when the detail has no member data throws a TypeError.
HandleSync(p, detail) ==
    LET action == Get(detail, "action")
        hasData == \E i \in 1..Len(detail) :
                       detail[i][1] \in {"data.currentTime", "data.videoId"}
        time == Get(detail, "data.currentTime")
        video == Get(detail, "data.videoId")
        thrown == <<Does(p, "TypeError", "handleSync")>>
        seek == <<Effect(p, "seekTo", "", 0, NoDesc, time, "")>>
    IN IF client[p].player = "null" THEN <<>>
       ELSE IF action = <<"play">>
       THEN IF ~hasData THEN thrown
            ELSE (IF Truthy(time) THEN seek ELSE <<>>) \o <<Does(p, "playVideo", "")>>
       ELSE IF action = <<"pause">>
       THEN IF ~hasData THEN thrown
            ELSE (IF Truthy(time) THEN seek ELSE <<>>) \o <<Does(p, "pauseVideo", "")>>
       ELSE IF action = <<"seek">>
       THEN IF ~hasData THEN thrown ELSE seek
       ELSE IF action = <<"loadVideo">>
       THEN IF ~hasData THEN thrown
            ELSE IF Truthy(video)
                 THEN <<Effect(p, "loadVideoById", video[1], 0, NoDesc,
                               IF Truthy(time) THEN time ELSE <<"0">>, "")>>
                 ELSE <<>>
       ELSE <<>>

\* The page's onPlayerSync callback: window.dispatchEvent(new
\* CustomEvent('youtube-sync', { detail: data })), which runs the listener;
\* what the listener throws goes to the window's error report, not to the
\* caller of dispatchEvent.
OnPlayerSync(p, data) ==
    <<Effect(p, "youtube-sync", Get(data, "action")[1], 0, NoDesc,
             Get(data, "currentTime"), Get(data, "videoId")[1])>>
    \o HandleSync(p, data)

\* YouTubePlayer creates its player once the API is loaded and a video is
\* chosen: playerRef.current = new window.YT.Player(...).
PlayerCreated(p) ==
    /\ client[p].player = "null"
    /\ client' = [client EXCEPT ![p].player = "created"]
    /\ did' = <<>>
    /\ call' = Call(p, "YT.Player")
    /\ UNCHANGED wire

\* A change of the player's state that its onStateChange has yet to be told;
\* cause records whether the user or a command of the peer made it (the
\* event the player raises does not say).
StateChange(state, cause) == [state |-> state, cause |-> cause]

\* The YouTube player carrying out the calls of effects, in order: playVideo
\* and loadVideoById start a player that is not playing, pauseVideo stops
\* one that is, and each change of state is reported through onStateChange.
RECURSIVE Played(_, _, _)
Played(inst, effects, cause) ==
    IF effects = <<>> THEN inst
    ELSE LET op == Head(effects).op
             next ==
                 IF op \in {"playVideo", "loadVideoById"} /\ inst.player # "playing"
                 THEN [inst EXCEPT !.player = "playing",
                                   !.playerEvents = Append(@, StateChange("playing", cause))]
                 ELSE IF op = "pauseVideo" /\ inst.player = "playing"
                 THEN [inst EXCEPT !.player = "paused",
                                   !.playerEvents = Append(@, StateChange("paused", cause))]
                 ELSE inst
         IN Played(next, Tail(effects), cause)

\* The user starts or stops the video with the player's own controls.
UserPlayback(p, action) ==
    /\ client[p].player # "null"
    /\ action = "play" => client[p].player # "playing"
    /\ action = "pause" => client[p].player = "playing"
    /\ client' = [client EXCEPT ![p] =
           Played(@, <<Does(p, IF action = "play" THEN "playVideo" ELSE "pauseVideo", "")>>,
                  "user")]
    /\ did' = <<>>
    /\ call' = Call(p, "controls")
    /\ UNCHANGED wire

\* The player's onStateChange for PLAYING or PAUSED: onPlayerEvent(action,
\* {currentTime, videoId}), which the page's handlePlayerEvent passes to
\* syncPlayer.
OnStateChange(p) ==
    /\ client[p].playerEvents # <<>>
    /\ LET action == IF Head(client[p].playerEvents).state = "playing"
                     THEN "play" ELSE "pause"
       IN Transmit(p, Stringify(SyncMessage(action)), "player-sync")
    /\ client' = [client EXCEPT ![p].playerEvents = Tail(@)]
    /\ call' = Call(p, "onStateChange")

\* Mutant of OnChannelMessage: the discriminator is not looked at, every
\* object that parses goes to onMessage.
OnChannelMessageAnyType(p) ==
    /\ client[p].dataChannel = "open"
    /\ wire[p] # <<>>
    /\ wire' = [wire EXCEPT ![p] = Tail(@)]
    /\ LET str == Head(wire[p])
           message == Parse(str)
       IN IF ~Parses(str)
          THEN /\ did' = <<Does(p, "console.error", "message")>>
               /\ UNCHANGED client
          ELSE /\ did' = <<Effect(p, "onMessage", "", 0, NoDesc,
                                  Get(message, "text"), Get(message, "sender")[1])>>
               /\ client' = [client EXCEPT ![p].gotChats =
                                 Append(@, [text |-> Get(message, "text"),
                                            sender |-> Get(message, "sender")[1]])]
    /\ call' = Call(p, "message")

\* channel.onmessage for the string at the head of the wire: a chat message
\* goes to onMessage, a player-sync message to onPlayerSync, any other
\* object is dropped, and a string JSON.parse throws on is logged.
OnChannelMessage(p) ==
    /\ client[p].dataChannel = "open"
    /\ wire[p] # <<>>
    /\ wire' = [wire EXCEPT ![p] = Tail(@)]
    /\ LET str == Head(wire[p])
           message == Parse(str)
       IN IF ~Parses(str)
          THEN /\ did' = <<Does(p, "console.error", "message")>>
               /\ UNCHANGED client
          ELSE IF Get(message, "type") = <<"chat">>
          THEN /\ did' = <<Effect(p, "onMessage", "", 0, NoDesc,
                                  Get(message, "text"), Get(message, "sender")[1])>>
               /\ client' = [client EXCEPT ![p].gotChats =
                                 Append(@, [text |-> Get(message, "text"),
                                            sender |-> Get(message, "sender")[1]])]
          ELSE IF Get(message, "type") = <<"player-sync">>
          THEN /\ did' = <<Effect(p, "onPlayerSync",
                                  Get(MessageData(message), "action")[1], 0, NoDesc,
                                  Get(MessageData(message), "currentTime"),
                                  Get(MessageData(message), "videoId")[1])>>
                             \o OnPlayerSync(p, MessageData(message))
               /\ client' = [client EXCEPT ![p] =
                     Played(@, HandleSync(p, MessageData(message)), "remote")]
          ELSE /\ did' = <<>>
               /\ UNCHANGED client
    /\ call' = Call(p, "message")

\* Mutant of ManagerDisconnect: the report comes before the closing.
ManagerDisconnectReportsFirst(p) ==
    /\ client' = [client EXCEPT ![p] =
           Shown([@ EXCEPT !.dataChannel = IF @ \in {"connecting", "open"}
                                           THEN "closing" ELSE @,
                           !.peerConnection = IF @ = "null" THEN @ ELSE "closed",
                           !.signalingState = IF @ = "null" THEN @ ELSE "closed",
                           !.socket = IF @ = "null" THEN @ ELSE "closed"],
                 "disconnected")]
    /\ did' = <<Report(p, "disconnected", 0), Does(p, "dataChannel.close", ""),
                Does(p, "peerConnection.close", ""), Does(p, "socket.disconnect", "")>>
    /\ call' = Call(p, "disconnect()")
    /\ UNCHANGED wire

\* Mutant of ManagerDisconnect: the signaling socket is left as it is.
ManagerDisconnectKeepsSocket(p) ==
    LET inst == client[p]
        closed == [inst EXCEPT
                      !.dataChannel = IF @ \in {"connecting", "open"}
                                      THEN "closing" ELSE @,
                      !.peerConnection = IF @ = "null" THEN @ ELSE "closed",
                      !.signalingState = IF @ = "null" THEN @ ELSE "closed"]
    IN /\ client' = [client EXCEPT ![p] =
                        IF inst.socket = "null" THEN closed
                        ELSE Shown(closed, "disconnected")]
       /\ did' = (IF inst.dataChannel = "null" THEN <<>>
                  ELSE <<Does(p, "dataChannel.close", "")>>)
                 \o (IF inst.peerConnection = "null" THEN <<>>
                     ELSE <<Does(p, "peerConnection.close", "")>>)
                 \o (IF inst.socket = "null" THEN <<>>
                     ELSE <<Report(p, "disconnected", 0)>>)
       /\ call' = Call(p, "disconnect()")
       /\ UNCHANGED wire

\* disconnect(): closes what exists, in this order, then reports. close() on
\* the data channel starts its closing (its close event comes later);
\* socket.disconnect() on a connected socket runs the socket's 'disconnect'
\* handler before it returns.
ManagerDisconnect(p) ==
    LET inst == client[p]
        dc == IF inst.dataChannel = "null" THEN <<>>
              ELSE <<Does(p, "dataChannel.close", "")>>
        pc == IF inst.peerConnection = "null" THEN <<>>
              ELSE <<Does(p, "peerConnection.close", "")>>
        so == IF inst.socket = "null" THEN <<>>
              ELSE <<Does(p, "socket.disconnect", "")>>
              \o (IF inst.socket = "connected"
                  THEN <<Report(p, "disconnected", 0)>> ELSE <<>>)
        cb == IF inst.socket = "null" THEN <<>>
              ELSE <<Report(p, "disconnected", 0)>>
        closed == [inst EXCEPT
                      !.dataChannel = IF @ \in {"connecting", "open"}
                                      THEN "closing" ELSE @,
                      !.peerConnection = IF @ = "null" THEN @ ELSE "closed",
                      !.signalingState = IF @ = "null" THEN @ ELSE "closed",
                      !.socket = IF @ = "null" THEN @ ELSE "closed"]
    IN /\ client' = [client EXCEPT ![p] =
                        IF cb = <<>> THEN closed ELSE Shown(closed, "disconnected")]
       /\ did' = dc \o pc \o so \o cb
       /\ call' = Call(p, "disconnect()")
       /\ UNCHANGED wire

----------------------------------------------------------------------------
\* The server side of a specification that runs the instances only.
ServerIdle ==
    /\ variant = "part_001"
    /\ conn = [c \in Conns |-> "new"]
    /\ sockRooms = [c \in Conns |-> {}]
    /\ rooms = <<>>
    /\ out = <<>>
    /\ readySent = {}
    /\ req = Req("listen", NoConn, "", FALSE, "", "")
    /\ handled = 0

\* p is the only instance of the page that has been initialized.
Alone(p) == client[Other(p)].socket = "null"

\* A step of the page's one instance that an event of its environment sets
\* off, and a step the instance or the browser takes by itself.
Raised(p) ==
    /\ Alone(p)
    /\ events < MaxClientEvents
    /\ events' = events + 1
    /\ UNCHANGED <<inbox, serverVars>>

Unprompted(p) ==
    /\ Alone(p)
    /\ UNCHANGED <<events, inbox, serverVars>>

\* One instance and everything its environment can raise on it: any
\* signaling event the server can send, in any order and with any payload,
\* every move of the transport and of the data channel, a dropped socket,
\* and the page calling disconnect(). No handler this specification runs
\* reads the username.
SignalingInit ==
    /\ ServerIdle
    /\ ClientInit([p \in Peers |-> "User0"])

SignalingNext ==
    \E p \in Peers :
        \/ Unprompted(p) /\ Initialize(p)
        \/ Unprompted(p) /\ SocketConnect(p)
        \/ Raised(p) /\ SocketDrop(p)
        \/ Raised(p) /\ \E n \in PeerCounts \ {0} : OnRoomJoined(p, n)
        \/ Raised(p) /\ \E n \in PeerCounts \ {0} : OnPeerJoined(p, n)
        \/ Raised(p) /\ \E n \in PeerCounts : OnPeerLeft(p, n)
        \/ Raised(p) /\ \E offer \in RemoteOffers : OnOffer(p, offer)
        \/ Raised(p) /\ \E answer \in RemoteAnswers : OnAnswer(p, answer)
        \/ Raised(p) /\ \E candidate \in Payloads : OnIceCandidate(p, candidate)
        \/ Raised(p) /\ OnReadyToConnect(p)
        \/ Raised(p) /\ \E isNull \in BOOLEAN : OnLocalIceCandidate(p, isNull)
        \/ Unprompted(p) /\ \E ok \in BOOLEAN : Settle(p, ok)
        \/ Raised(p) /\ \E state \in TransportNext(client[p]) :
                            OnConnectionStateChange(p, state)
        \/ Raised(p) /\ OnDataChannel(p)
        \/ Raised(p) /\ ChannelOpen(p)
        \/ Raised(p) /\ ChannelClose(p)
        \/ Raised(p) /\ ManagerDisconnect(p)

SignalingSpec == SignalingInit /\ [][SignalingNext]_vars

----------------------------------------------------------------------------
\* One host and one guest in one room of a signaling server that delivers:
\* no socket drops, no description step fails, the transport does not fail
\* and nobody calls disconnect(). The server is the join-room and relay
\* handlers of part_001 for this one room, its emissions going straight
\* into the inboxes.

Signal(ev, n, desc) == [ev |-> ev, n |-> n, desc |-> desc]

Joined(p) == client[p].socket = "connected"

\* What the server's join-room handler sends when p's join-room arrives,
\* as the inboxes afterwards: room-joined to p, peer-joined to the user
\* already in the room, ready-to-connect to the host once there are two.
JoinRoomSends(p) ==
    LET two == Joined(Other(p))
        n   == IF two THEN 2 ELSE 1
        toP == <<Signal("room-joined", n, NoDesc)>>
               \o (IF two /\ IsHost(p)
                   THEN <<Signal("ready-to-connect", 0, NoDesc)>> ELSE <<>>)
        toO == IF two
               THEN <<Signal("peer-joined", n, NoDesc)>>
                    \o (IF IsHost(Other(p))
                        THEN <<Signal("ready-to-connect", 0, NoDesc)>> ELSE <<>>)
               ELSE <<>>
    IN [inbox EXCEPT ![p] = @ \o toP, ![Other(p)] = @ \o toO]

\* What the server's relay handlers make of the offers, answers and
\* candidates p emitted in effects: they go to the other user of the room.
RECURSIVE RelaySends(_, _)
RelaySends(p, effects) ==
    IF effects = <<>> THEN <<>>
    ELSE (IF Head(effects).op = "emit" /\ Head(effects).arg \in RelayEvents
             /\ Joined(Other(p))
          THEN <<Signal(Head(effects).arg, 0, Head(effects).desc)>> ELSE <<>>)
         \o RelaySends(p, Tail(effects))

Idle == UNCHANGED <<events, serverVars>>

NegotiationInit ==
    /\ ServerIdle
    /\ \E usernames \in [Peers -> DefaultUsernames] : ClientInit(usernames)

Arrives(p, ev) ==
    /\ inbox[p] # <<>>
    /\ Head(inbox[p]).ev = ev
    /\ inbox' = [inbox EXCEPT ![p] = Tail(@)]
    /\ Idle

NegotiationNext ==
    \E p \in Peers :
        \/ Initialize(p) /\ UNCHANGED inbox /\ Idle
        \/ SocketConnect(p) /\ inbox' = JoinRoomSends(p) /\ Idle
        \/ Arrives(p, "room-joined") /\ OnRoomJoined(p, Head(inbox[p]).n)
        \/ Arrives(p, "peer-joined") /\ OnPeerJoined(p, Head(inbox[p]).n)
        \/ Arrives(p, "ready-to-connect") /\ OnReadyToConnect(p)
        \/ Arrives(p, "offer") /\ OnOffer(p, Head(inbox[p]).desc)
        \/ Arrives(p, "answer") /\ OnAnswer(p, Head(inbox[p]).desc)
        \/ Arrives(p, "ice-candidate") /\ OnIceCandidate(p, Head(inbox[p]).desc.sdp)
        \/ /\ \E isNull \in BOOLEAN : OnLocalIceCandidate(p, isNull)
           /\ inbox' = [inbox EXCEPT ![Other(p)] = @ \o RelaySends(p, did')]
           /\ Idle
        \/ /\ client[p].chain # <<>>
           /\ Possible(client[p], Head(client[p].chain))
           /\ Settle(p, TRUE)
           /\ inbox' = [inbox EXCEPT ![Other(p)] = @ \o RelaySends(p, did')]
           /\ Idle
        \/ /\ \E state \in TransportNext(client[p]) \ {"failed", "disconnected"} :
                 /\ state = "connected" =>
                        /\ client[Other(p)].localDescription # NoDesc
                        /\ client[Other(p)].remoteDescription # NoDesc
                 /\ OnConnectionStateChange(p, state)
           /\ UNCHANGED inbox /\ Idle
        \/ OnDataChannel(p) /\ UNCHANGED inbox /\ Idle
        \/ /\ client[Other(p)].peerConnection = "connected"
           /\ ChannelOpen(p)
           /\ UNCHANGED inbox /\ Idle

\* Every handler whose event has arrived runs, and every awaited operation
\* settles: the event loops of the two pages and the browsers keep going.
NegotiationSpec ==
    NegotiationInit /\ [][NegotiationNext]_vars /\ WF_vars(NegotiationNext)

----------------------------------------------------------------------------
\* The session of NegotiationSpec from the moment both transports are
\* connected, with its pages in use: at any moment a page can call
\* sendMessage or syncPlayer (events counts these calls) or disconnect();
\* the data channel delivers in order; when an instance has disconnected,
\* the server tells the other one, whose transport and channel go down.

\* The instance p of a session whose negotiation has completed.
Negotiated(p, username) ==
    [Constructed(username) EXCEPT
        !.socket = "connected",
        !.peerConnection = "connected",
        !.signalingState = "stable",
        !.localDescription = LocalDesc(p, IF IsHost(p) THEN "offer" ELSE "answer"),
        !.remoteDescription =
            LocalDesc(Other(p), IF IsHost(p) THEN "answer" ELSE "offer"),
        !.dataChannel = IF IsHost(p) THEN "connecting" ELSE "null",
        !.peersCount = 1,
        !.status = "connected",
        !.readyReceived = IF IsHost(p) THEN 1 ELSE 0,
        !.offersSent = IF IsHost(p) THEN 1 ELSE 0,
        !.answersSent = IF IsHost(p) THEN 0 ELSE 1,
        !.entered = 1,
        !.iceGatheringState = "complete",
        !.gathered = MaxCandidates,
        !.added = MaxCandidates]

\* The states of NegotiationSpec right after the second transport connected.
ChannelInit ==
    /\ ServerIdle
    /\ \E usernames \in [Peers -> DefaultUsernames] :
           client = [p \in Peers |-> Negotiated(p, usernames[p])]
    /\ inbox = [p \in Peers |-> <<>>]
    /\ wire = [p \in Peers |-> <<>>]
    /\ \E p \in Peers : /\ did = <<Report(p, "connected", 1)>>
                        /\ call = Call(p, "connectionstatechange")
    /\ events = 0

\* What the server's disconnect handler sends when p's socket has closed:
\* peer-left, with the count of those left, to the user still in the room.
DisconnectSends(p) ==
    IF Joined(p) /\ Joined(Other(p))
    THEN [inbox EXCEPT ![Other(p)] = Append(@, Signal("peer-left", 1, NoDesc))]
    ELSE inbox

Calls ==
    /\ events < MaxSends
    /\ events' = events + 1
    /\ UNCHANGED <<inbox, serverVars>>

ChannelNext ==
    \E p \in Peers :
        \/ OnDataChannel(p) /\ UNCHANGED inbox /\ Idle
        \/ /\ client[Other(p)].peerConnection = "connected"
           /\ ChannelOpen(p)
           /\ UNCHANGED inbox /\ Idle
        \/ Calls /\ \E text \in Texts : SendMessage(p, text)
        \/ Calls /\ \E action \in SyncActions : SyncPlayer(p, action)
        \/ OnChannelMessage(p) /\ UNCHANGED inbox /\ Idle
        \/ /\ client[p].socket # "closed"
           /\ ManagerDisconnect(p)
           /\ inbox' = DisconnectSends(p)
           /\ Idle
        \/ Arrives(p, "peer-left") /\ OnPeerLeft(p, Head(inbox[p]).n)
        \/ /\ client[Other(p)].peerConnection = "closed"
           /\ \E state \in TransportNext(client[p]) \cap {"failed", "disconnected"} :
                  OnConnectionStateChange(p, state)
           /\ UNCHANGED inbox /\ Idle
        \/ /\ \/ client[p].dataChannel = "closing"
              \/ client[Other(p)].dataChannel \in {"closing", "closed"}
           /\ ChannelClose(p)
           /\ UNCHANGED inbox /\ Idle

ChannelSpec == ChannelInit /\ [][ChannelNext]_vars

\* ChannelInit is a state of NegotiationSpec.
NegotiatedReached ==
    /\ \E usernames \in [Peers -> DefaultUsernames] :
           client = [p \in Peers |-> Negotiated(p, usernames[p])]
    /\ inbox = [p \in Peers |-> <<>>]
    /\ \E p \in Peers : /\ did = <<Report(p, "connected", 1)>>
                        /\ call = Call(p, "connectionstatechange")


----------------------------------------------------------------------------
\* The onmessage handler of the negotiated session's instances under any
\* remote end: whoever holds the other end of the data channel can send any
\* string (events counts the strings sent).

\* Strings that are not JSON, objects of another type or of none, and chat
\* objects that lack a member.
ForeignStrings ==
    { << <<"type", <<"chat">> >>, <<"text", <<"hi", "\\">> >> >>,
      Stringify(<< <<"type", <<"typing">> >>, <<"sender", <<"Mallory">> >> >>),
      Stringify(<< <<"text", <<"hi">> >>, <<"sender", <<"Mallory">> >> >>),
      Stringify(<< <<"type", <<"chat">> >>, <<"sender", <<"Mallory">> >>,
                   <<"timestamp", Now>> >>),
      Stringify(<< <<"type", <<"chat">> >>, <<"text", <<"hi">> >>,
                   <<"timestamp", Now>> >>) }

InboundStrings ==
    ForeignStrings
    \cup {Stringify(ChatMessage(text, "Mallory")) : text \in Texts}
    \cup {Stringify(SyncMessage(action)) : action \in SyncActions}

\* The remote end's dataChannel.send(str).
RemoteSends(p, str) ==
    /\ Calls
    /\ wire' = [wire EXCEPT ![p] = Append(@, str)]
    /\ did' = <<>>
    /\ call' = Call(Other(p), "remote send")
    /\ UNCHANGED client

InboundNext ==
    \E p \in Peers :
        \/ OnDataChannel(p) /\ UNCHANGED inbox /\ Idle
        \/ ChannelOpen(p) /\ UNCHANGED inbox /\ Idle
        \/ \E str \in InboundStrings : RemoteSends(p, str)
        \/ OnChannelMessage(p) /\ UNCHANGED inbox /\ Idle

InboundSpec == ChannelInit /\ [][InboundNext]_vars

\* The actions handleSync knows; YouTubePlayer itself reports play and pause.
PlayerActions == {"play", "pause", "seek", "loadVideo"}

\* A player-sync message of another shape, {action, data: {currentTime,
\* videoId}}, as a remote end that is not this client can send it.
NestedSyncMessage(action) ==
    << <<"type", <<"player-sync">> >>, <<"data.action", <<action>> >>,
       <<"data.data.currentTime", CurrentTime>>, <<"data.data.videoId", VideoId>> >>

\* Playback synchronisation over the negotiated channel: the pages create
\* their players, call syncPlayer and handle what arrives.
SyncNext ==
    \E p \in Peers :
        \/ OnDataChannel(p) /\ UNCHANGED inbox /\ Idle
        \/ ChannelOpen(p) /\ UNCHANGED inbox /\ Idle
        \/ PlayerCreated(p) /\ UNCHANGED inbox /\ Idle
        \/ Calls /\ \E action \in PlayerActions : SyncPlayer(p, action)
        \/ \E action \in PlayerActions :
               RemoteSends(p, Stringify(NestedSyncMessage(action)))
        \/ Calls /\ \E action \in SyncActions : UserPlayback(p, action)
        \/ OnStateChange(p) /\ UNCHANGED inbox /\ Idle
        \/ OnChannelMessage(p) /\ UNCHANGED inbox /\ Idle

SyncSpec == ChannelInit /\ [][SyncNext]_vars

----------------------------------------------------------------------------
\* Vocabulary of the properties

Registered(rms, c) == {r \in RoomIds : HasRoom(rms, r) /\ c \in UserIds(getRoom(rms, r).users)}

\* The connections a broadcast addressed to room r reaches (socket.io's room).
InTransportRoom(sr, r) == {d \in Conns : r \in sr[d]}

Emitted(o, ev) == {k \in 1..Len(o) : o[k].ev = ev}

\* How many messages of kind ev in o are delivered to connection d.
Received(o, ev, d) == Cardinality({k \in Emitted(o, ev) : d \in o[k].to})

----------------------------------------------------------------------------
\* C1: in both server variants every room of the registry has a peersCount
\* equal to the number of entries of its users Map (whose keys are distinct),
\* after every join-room, leave-room and disconnect.
C1_PeersCountIsSize ==
    \A i \in 1..Len(rooms) :
        /\ rooms[i].peersCount = Len(rooms[i].users)
        /\ Cardinality(UserIds(rooms[i].users)) = Len(rooms[i].users)

\* A disconnect has just taken a user out of a room that still holds another.
C1_Witness ==
    /\ req.op = "disconnect"
    /\ Len(out) > 0
    /\ \E i \in 1..Len(rooms) :
           rooms[i].roomId = out[1].room /\ rooms[i].peersCount = 1

\* C2 (as claimed): no reachable registry holds a room with zero
\* participants, in either server variant.
C2_NoEmptyRoom ==
    \A i \in 1..Len(rooms) : Len(rooms[i].users) > 0

\* C3 (as claimed): a connection id is in the users Map of at most one room.
C3_AtMostOneRoom ==
    \A c \in Conns : Cardinality(Registered(rooms, c)) <= 1

\* C4: a join-room by a connection c into a room that holds exactly one
\* participant, another connection marked isHost, emits exactly one
\* ready-to-connect, delivered to that host and to nobody else.
C4_ReadyToHostOnly ==
    [][\A r \in RoomIds :
         ( /\ req'.op = "join-room"
           /\ req'.roomId = r
           /\ HasRoom(rooms, r)
           /\ Len(getRoom(rooms, r).users) = 1
           /\ getRoom(rooms, r).users[1].isHost
           /\ getRoom(rooms, r).users[1].id # req'.c )
         => /\ Cardinality(Emitted(out', "ready-to-connect")) = 1
            /\ \A k \in Emitted(out', "ready-to-connect") :
                   out'[k].to = {getRoom(rooms, r).users[1].id}
            /\ getRoom(rooms', r).peersCount = 2 ]_vars

\* A second host has joined a room held by a host: the ready-to-connect went
\* to the first one only.
C4_Witness ==
    /\ req.op = "join-room"
    /\ req.isHost
    /\ HasRoom(rooms, req.roomId)
    /\ Len(getRoom(rooms, req.roomId).users) = 2
    /\ getRoom(rooms, req.roomId).users[1].isHost
    /\ getRoom(rooms, req.roomId).users[2].id = req.c
    /\ Len(out) = 3
    /\ out[3].ev = "ready-to-connect"
    /\ out[3].to = {getRoom(rooms, req.roomId).users[1].id}

\* C5 (as claimed): once a ready-to-connect went out for a room holding two
\* participants, one a host, no handler emits another one for that room as
\* long as the room holds the same two participants.
C5_NoSecondReady ==
    [][\A r \in RoomIds :
         ( /\ r \in readySent
           /\ HasRoom(rooms, r)
           /\ Len(getRoom(rooms, r).users) = 2
           /\ FindHost(getRoom(rooms, r).users) # NoConn
           /\ HasRoom(rooms', r)
           /\ UserIds(getRoom(rooms', r).users) = UserIds(getRoom(rooms, r).users) )
         => r \notin ReadyRooms(out') ]_vars

\* C6: the disconnect handler of connection c emits one peer-left broadcast
\* for each room whose users Map held c, and nothing else; the broadcast for a
\* room carries c's id, the username c had in that room and the room's
\* peersCount after the removal.
C6_OnePeerLeftPerRoom ==
    [][req'.op = "disconnect" =>
         LET c   == req'.c
             hit == {i \in 1..Len(rooms) : c \in UserIds(rooms[i].users)}
         IN /\ Len(out') = Cardinality(hit)
            /\ \A k \in 1..Len(out') : out'[k].ev = "peer-left"
            /\ \A i \in hit :
                 /\ Cardinality({k \in 1..Len(out') : out'[k].room = rooms[i].roomId}) = 1
                 /\ \A k \in 1..Len(out') :
                      out'[k].room = rooms[i].roomId =>
                        /\ out'[k].peerId = c
                        /\ out'[k].username = UsersGet(rooms[i].users, c).username
                        /\ out'[k].peersCount = Len(rooms[i].users) - 1 ]_vars

\* A connection registered in two rooms, under two usernames, has disconnected.
C6_Witness ==
    /\ req.op = "disconnect"
    /\ Len(out) = 2
    /\ out[1].room # out[2].room
    /\ out[1].username # out[2].username
    /\ out[1].peerId = req.c /\ out[2].peerId = req.c

\* C7: a join-room(roomId, isHost, username) from connection c sends c one
\* room-joined with roomId, the peersCount after the join and c's isHost flag;
\* every other connection in the room (the socket.io room the broadcast is
\* addressed to) gets one peer-joined with c's id, the peersCount after the
\* join and the username c is registered under (the one sent, or the default
\* when none was sent); c gets no peer-joined.
C7_JoinNotifications ==
    req.op = "join-room" =>
        LET c    == req.c
            room == getRoom(rooms, req.roomId)
        IN /\ HasRoom(rooms, req.roomId)
           /\ UsersHas(room.users, c)
           /\ \A d \in Conns :
                /\ Received(out, "room-joined", d) = (IF d = c THEN 1 ELSE 0)
                /\ Received(out, "peer-joined", d) =
                     (IF d # c /\ d \in InTransportRoom(sockRooms, req.roomId)
                      THEN 1 ELSE 0)
           /\ \A k \in Emitted(out, "room-joined") :
                /\ out[k].room = req.roomId
                /\ out[k].peersCount = Len(room.users)
                /\ out[k].isHost = req.isHost
           /\ \A k \in Emitted(out, "peer-joined") :
                /\ out[k].peerId = c
                /\ out[k].peersCount = Len(room.users)
                /\ out[k].username = UsersGet(room.users, c).username
                /\ req.username # "" => out[k].username = req.username
                /\ req.username = "" => out[k].username \in DefaultUsernames

\* Host Alice, then guest Bob, joined "abc123": Bob has room-joined{2, false},
\* Alice has peer-joined{2, "Bob"} and ready-to-connect.
C7_Witness ==
    /\ rooms = << [roomId |-> "abc123",
                   users |-> << [id |-> 1, username |-> "Alice", isHost |-> TRUE],
                                [id |-> 2, username |-> "Bob", isHost |-> FALSE] >>,
                   peersCount |-> 2] >>
    /\ req = Req("join-room", 2, "abc123", FALSE, "Bob", "")
    /\ out = << Msg("room-joined", {2}, "abc123", NoConn, 2, "", FALSE, ""),
                Msg("peer-joined", {1}, "abc123", 2, 2, "Bob", FALSE, ""),
                Msg("ready-to-connect", {1}, "abc123", NoConn, 0, "", FALSE, "") >>

\* The connections of the clients named Alice and Bob.
Alice == CHOOSE c \in Conns : ClientUsername(c) = "Alice"
Bob == CHOOSE c \in Conns : ClientUsername(c) = "Bob"

\* Room r holds exactly host a and guest b, both of them in the room.
PairRoom(rms, sr, r, a, b) ==
    /\ HasRoom(rms, r)
    /\ Len(getRoom(rms, r).users) = 2
    /\ UserIds(getRoom(rms, r).users) = {a, b}
    /\ a # b
    /\ UsersGet(getRoom(rms, r).users, a).isHost
    /\ ~UsersGet(getRoom(rms, r).users, b).isHost
    /\ r \in sr[a] /\ r \in sr[b]

\* C8: with clients as written in webrtc.ts. When the disconnect handler of
\* a guest b runs while room r holds exactly host a and guest b, a receives
\* exactly one peer-left, with peersCount 1 and b's username, and r stays in
\* the registry with a alone and peersCount 1; and once Bob's client has
\* closed its connection in a room it shares with host Alice, the server
\* eventually has run that handler: Bob is in no users Map any more.
C8_GuestDisconnects ==
    /\ [][\A r \in RoomIds, a \in Conns :
            ( /\ req'.op = "disconnect"
              /\ PairRoom(rooms, sockRooms, r, a, req'.c) )
            => /\ Received(out', "peer-left", a) = 1
               /\ \A k \in Emitted(out', "peer-left") :
                      a \in out'[k].to =>
                        /\ out'[k].peersCount = 1
                        /\ out'[k].peerId = req'.c
                        /\ out'[k].username =
                             UsersGet(getRoom(rooms, r).users, req'.c).username
               /\ HasRoom(rooms', r)
               /\ getRoom(rooms', r).peersCount = 1
               /\ UserIds(getRoom(rooms', r).users) = {a} ]_vars
    /\ (conn[Bob] = "closing"
          /\ \E r \in RoomIds : PairRoom(rooms, sockRooms, r, Alice, Bob))
         ~> (conn[Bob] = "closed" /\ Registered(rooms, Bob) = {})

\* Bob has disconnected from the room he shared with host Alice.
C8_Witness ==
    /\ req.op = "disconnect" /\ req.c = Bob
    /\ conn[Bob] = "closed"
    /\ rooms = << [roomId |-> "abc123",
                   users |-> << [id |-> 1, username |-> "Alice", isHost |-> TRUE] >>,
                   peersCount |-> 1] >>
    /\ out = << Msg("peer-left", {1}, "abc123", 2, 1, "Bob", FALSE, "") >>

\* C9 (as claimed): in both server variants a leave-room(roomId) from a
\* connection that is not in roomId's users Map, or for a roomId the registry
\* does not hold, changes nothing in the rooms Map and emits no peer-left.
C9_LeaveAbsentIsNoOp ==
    [][( /\ req'.op = "leave-room"
         /\ req'.roomId \notin Registered(rooms, req'.c) )
       => /\ rooms' = rooms
          /\ Emitted(out', "peer-left") = {} ]_vars

\* C10: an offer, answer or ice-candidate from connection s with roomId r is
\* emitted once, to every connection in room r (the socket.io room) other
\* than s and never to s, with the payload as sent and peerId s; the registry
\* and the room memberships are left as they were.
C10_RelayToOthers ==
    [][req'.op \in RelayEvents =>
         /\ rooms' = rooms
         /\ sockRooms' = sockRooms
         /\ Len(out') = 1
         /\ out'[1].ev = req'.op
         /\ out'[1].payload = req'.payload
         /\ out'[1].peerId = req'.c
         /\ \A d \in Conns :
              Received(out', req'.op, d) =
                (IF d # req'.c /\ d \in InTransportRoom(sockRooms, req'.roomId)
                 THEN 1 ELSE 0) ]_vars

\* An offer has been relayed to the other connection of the sender's room.
C10_Witness ==
    /\ req.op = "offer"
    /\ req.roomId \in sockRooms[req.c]
    /\ Len(out) = 1
    /\ out[1].to # {}
    /\ req.c \notin out[1].to
    /\ out[1].payload = req.payload

----------------------------------------------------------------------------
\* Claims about WebRTCManager

\* C11: with one host and one guest in a room, signaling delivered, no
\* description step failing and nobody disconnecting, the negotiation
\* completes: from some point on the host has sent its one offer (never
\* more offers than ready-to-connect events it got), the guest has sent its
\* one answer, both instances show 'connected', and each of them has
\* changed to 'connected' exactly once.
C11_NegotiationCompletes ==
    /\ [](\A p \in Peers : /\ client[p].offersSent <= client[p].readyReceived
                           /\ client[p].entered <= 1)
    /\ <>[](/\ client["H"].offersSent = 1
            /\ client["G"].answersSent = 1
            /\ \A p \in Peers : /\ client[p].status = "connected"
                                /\ client[p].entered = 1)

C11_Witness ==
    /\ client["H"].readyReceived = 1
    /\ client["H"].offersSent = 1
    /\ client["G"].answersSent = 1
    /\ \A p \in Peers : /\ client[p].status = "connected"
                        /\ client[p].peerConnection = "connected"
                        /\ client[p].dataChannel = "open"

\* The statuses the step that ran last reported for p.
Reports(effects, p) ==
    {effects[i].arg : i \in {j \in 1..Len(effects) :
                                 /\ effects[j].p = p
                                 /\ effects[j].op = "onConnectionChange"}}

\* C12: an instance reports 'connected' only while its transport is
\* connected and its data channel is open.
C12_ConnectedMeansUsable ==
    \A p \in Peers :
        "connected" \in Reports(did, p) =>
            /\ client[p].peerConnection = "connected"
            /\ client[p].dataChannel = "open"

\* C13: an instance that has reported 'disconnected' for a transport that
\* became disconnected or failed reports neither 'connecting' nor 'connected'
\* in any later step.
C13_LostIsTerminal ==
    [][\A p \in Peers :
           client[p].transportLost =>
               Reports(did', p) \cap {"connecting", "connected"} = {}]_vars

\* The calls of op among effects.
Count(effects, op) == Cardinality({i \in 1..Len(effects) : effects[i].op = op})

SendCalls == {"sendMessage", "syncPlayer"}

\* C14: a sendMessage or syncPlayer call on an instance whose data channel
\* is open puts exactly one string on the wire to the other instance; a call
\* on an instance whose channel is missing or not open does nothing at all;
\* and no other step (a channel opening in particular) puts anything on a
\* wire.
C14_SendOnlyWhenOpen ==
    [][\A p \in Peers :
           IF call'.p = p /\ call'.name \in SendCalls
           THEN IF client[p].dataChannel = "open"
                THEN /\ Count(did', "dataChannel.send") = 1
                     /\ Len(did') = 1
                     /\ Len(wire'[Other(p)]) = Len(wire[Other(p)]) + 1
                     /\ wire'[p] = wire[p]
                ELSE /\ did' = <<>>
                     /\ wire' = wire
           ELSE call'.p = p =>
                    /\ Count(did', "dataChannel.send") = 0
                    /\ \A q \in Peers : Len(wire'[q]) <= Len(wire[q])]_vars

\* After two calls, the second one a sendMessage of the guest on its open
\* channel, one string is on the wire to the host.
C14_Witness ==
    /\ events = 2
    /\ call = Call("G", "sendMessage")
    /\ client["G"].dataChannel = "open"
    /\ Len(wire["H"]) = 1
    /\ client["H"].sentChats = <<>>
    /\ client["G"].gotChats = <<>>

\* The chat messages among the strings on a wire, as onMessage would get
\* them.
RECURSIVE ChatsOn(_)
ChatsOn(strs) ==
    IF strs = <<>> THEN <<>>
    ELSE (IF Parses(Head(strs)) /\ Get(Parse(Head(strs)), "type") = <<"chat">>
          THEN <<[text |-> Get(Parse(Head(strs)), "text"),
                  sender |-> Get(Parse(Head(strs)), "sender")[1]]>>
          ELSE <<>>)
         \o ChatsOn(Tail(strs))

\* C15: the texts an instance sent with sendMessage on an open channel are,
\* in order and each once, what the other instance's onMessage has been
\* invoked with followed by what is still on the wire to it, and the sender
\* given is the username of the sending instance.
C15_ChatRoundTrip ==
    \A p \in Peers :
        client[p].gotChats \o ChatsOn(wire[p]) =
            [i \in 1..Len(client[Other(p)].sentChats) |->
                 [text |-> client[Other(p)].sentChats[i],
                  sender |-> client[Other(p)].username]]

C15_Witness ==
    /\ call = Call("G", "message")
    /\ Count(did, "onMessage") = 1
    /\ did[1].text \in Texts /\ "\\" \in {did[1].text[i] : i \in 1..Len(did[1].text)}
    /\ did[1].sender = client["H"].username
    /\ Len(client["G"].gotChats) = 2
    /\ wire["G"] = <<>>

\* The closing calls among effects, in order.
RECURSIVE Closes(_)
Closes(effects) ==
    IF effects = <<>> THEN <<>>
    ELSE (IF Head(effects).op \in {"dataChannel.close", "peerConnection.close",
                                   "socket.disconnect"}
          THEN <<Head(effects).op>> ELSE <<>>)
         \o Closes(Tail(effects))

\* C16: disconnect() on an initialized instance closes the data channel (if
\* there is one), then the peer connection, then the signaling socket, and
\* everything it reports comes after the three and is 'disconnected' with
\* peer count 0, the last thing it does being such a report.
C16_DisconnectOrder ==
    [][\A p \in Peers :
           (call' = Call(p, "disconnect()") /\ client[p].socket # "null") =>
               LET n == Len(Closes(did'))
               IN /\ Closes(did') =
                        (IF client[p].dataChannel = "null" THEN <<>>
                         ELSE <<"dataChannel.close">>)
                        \o <<"peerConnection.close", "socket.disconnect">>
                  /\ \A i \in 1..n : did'[i].op = Closes(did')[i]
                  /\ Len(did') > n
                  /\ \A i \in (n + 1)..Len(did') : did'[i] = Report(p, "disconnected", 0)
                  /\ client'[p].peerConnection = "closed"
                  /\ client'[p].socket = "closed"
                  /\ client'[p].dataChannel \in {"null", "closing", "closed"}]_vars

C16_Witness ==
    /\ call = Call("H", "disconnect()")
    /\ Len(did) = 5
    /\ did[1].op = "dataChannel.close"
    /\ client["H"].dataChannel = "closing"
    /\ client["H"].status = "disconnected"

\* The operations of the handlers of the given kinds that p's peer
\* connection still has to settle.
InProgress(p, kinds) ==
    {i \in 1..Len(client[p].chain) : client[p].chain[i].kind \in kinds}

\* The events of the given name that effects emits.
Emits(effects, p, ev) ==
    {i \in 1..Len(effects) :
         effects[i].p = p /\ effects[i].op = "emit" /\ effects[i].arg = ev}

\* C17: only a host instance emits an offer, and only for a
\* ready-to-connect it received: the offers an instance has emitted and the
\* offers it is still preparing are never more than the ready-to-connect
\* events it has received, and both are none on a guest.
C17_OfferOnlyForReady ==
    \A p \in Peers :
        /\ client[p].offersSent + Cardinality(InProgress(p, {"ready-to-connect"}))
               <= client[p].readyReceived
        /\ Emits(did, p, "offer") # {} =>
               /\ IsHost(p)
               /\ call = Call(p, "setLocalDescription")
               /\ client[p].offersSent >= 1
        /\ ~IsHost(p) =>
               /\ client[p].offersSent = 0
               /\ InProgress(p, {"ready-to-connect"}) = {}

\* The host has emitted the first of the two offers it was asked for.
C17_Witness ==
    /\ Emits(did, "H", "offer") # {}
    /\ client["H"].readyReceived = 2
    /\ client["H"].offersSent = 1
    /\ Cardinality(InProgress("H", {"ready-to-connect"})) = 1

\* C18: an answer is emitted only by the step in which the local answer of
\* an offer handler is set, after that handler's setRemoteDescription and
\* createAnswer, and a step in which an operation of an offer handler is
\* rejected ends the handler without an answer.
C18_AnswerAfterThreeSteps ==
    [][\A p \in Peers :
           /\ Emits(did', p, "answer") # {} =>
                  /\ client[p].chain # <<>>
                  /\ Head(client[p].chain) =
                         Pending("offer", "setLocalDescription", LocalDesc(p, "answer"))
                  /\ Possible(client[p], Head(client[p].chain))
                  /\ client[p].remoteDescription.type = "offer"
                  /\ client'[p].localDescription = LocalDesc(p, "answer")
                  /\ client'[p].answersSent = client[p].answersSent + 1
                  /\ did' = <<Emit(p, "answer", LocalDesc(p, "answer"))>>
           /\ Emits(did', p, "answer") = {} =>
                  client'[p].answersSent = client[p].answersSent
           /\ (/\ call'.p = p
               /\ Count(did', "console.error") > 0
               /\ client[p].chain # <<>>
               /\ Head(client[p].chain).kind = "offer") =>
                  /\ Emits(did', p, "answer") = {}
                  /\ Cardinality(InProgress(p, {"offer"})') =
                         Cardinality(InProgress(p, {"offer"})) - 1]_vars

C18_Witness ==
    /\ Emits(did, "G", "answer") # {}
    /\ client["G"].answersSent = 1
    /\ client["G"].signalingState = "stable"
    /\ client["G"].remoteDescription \in RemoteOffers

\* C19: an instance never has the description sequences of two offers or
\* answers in progress at once.
C19_OneSequenceAtATime ==
    \A p \in Peers : Cardinality(InProgress(p, {"offer", "answer"})) <= 1

\* C20: an instance that has reported a lost transport emits no further
\* offer and no further answer.
C20_NoNegotiationAfterLoss ==
    [][\A p \in Peers :
           client[p].transportLost =>
               /\ Emits(did', p, "offer") = {}
               /\ Emits(did', p, "answer") = {}]_vars

\* C21: a candidate the browser gets to add on an open peer connection
\* finds the remote description set, so that it is added and not rejected.
C21_CandidateFindsRemote ==
    \A p \in Peers :
        (/\ client[p].chain # <<>>
         /\ Head(client[p].chain).op = "addIceCandidate"
         /\ client[p].peerConnection \notin {"null", "closed"}) =>
            client[p].remoteDescription # NoDesc

\* In the session of NegotiationSpec every candidate is added in the end.
AllCandidatesAdded ==
    <>[](\A p \in Peers : /\ client[p].iceGatheringState = "complete"
                          /\ client[p].added = client[Other(p)].gathered)

DescriptionHandlers == {"offer", "answer", "ready-to-connect"}

\* C22: when an operation awaited by the offer, answer or ready-to-connect
\* handler is rejected, the handler logs the error and ends: that step emits
\* nothing and reports nothing, and it leaves the instance as it was except
\* for the ended handler, so that the shown status stays and every later
\* event is handled as before.
C22_FailureIsCaught ==
    [][\A p \in Peers :
           (/\ call'.p = p
            /\ client[p].chain # <<>>
            /\ Head(client[p].chain).kind \in DescriptionHandlers
            /\ call'.name = Head(client[p].chain).op
            /\ client'[p].chain = Tail(client[p].chain)
            /\ Count(did', "console.error") > 0) =>
               /\ did' = <<Does(p, "console.error", Head(client[p].chain).kind)>>
               /\ client'[p] = [client[p] EXCEPT !.chain = Tail(@)]
               /\ client'[p].status = client[p].status
               /\ client'[p].socket = client[p].socket]_vars

\* The guest's createAnswer was rejected while it showed 'connecting'.
C22_Witness ==
    /\ call = Call("G", "createAnswer")
    /\ did = <<Does("G", "console.error", "offer")>>
    /\ client["G"].status = "connecting"
    /\ client["G"].answersSent = 0
    /\ client["G"].remoteDescription \in RemoteOffers

\* Whether onmessage has a branch for the string: it parses and its type
\* is chat or player-sync.
Known(str) ==
    /\ Parses(str)
    /\ Get(Parse(str), "type") \in {<<"chat">>, <<"player-sync">>}

\* C23: a data-channel message that is not JSON, or whose type is neither
\* chat nor player-sync, reaches neither onMessage nor onPlayerSync and
\* reports no status; the handler takes it off the wire and leaves the
\* instance as it was, the channel open for the next message.
C23_UnknownIsIgnored ==
    [][\A p \in Peers :
           (/\ call' = Call(p, "message")
            /\ wire[p] # <<>>
            /\ wire'[p] = Tail(wire[p])
            /\ ~Known(Head(wire[p]))) =>
               /\ Count(did', "onMessage") = 0
               /\ Count(did', "onPlayerSync") = 0
               /\ Count(did', "onConnectionChange") = 0
               /\ client' = client
               /\ client'[p].dataChannel = "open"]_vars

\* An object of an unknown type was dropped and the chat message behind it
\* on the wire is next.
C23_Witness ==
    /\ call = Call("G", "message")
    /\ did = <<>>
    /\ client["G"].gotChats = <<>>
    /\ Len(wire["G"]) = 1
    /\ Get(Parse(wire["G"][1]), "type") = <<"chat">>
    /\ events = 2

\* C24: onMessage is not invoked for a chat object without text or without
\* sender.
C24_IncompleteChatDropped ==
    \A i \in 1..Len(did) :
        did[i].op = "onMessage" =>
            /\ did[i].text # Undefined
            /\ did[i].sender # Undefined[1]

----------------------------------------------------------------------------
\* C25: a room never holds more than two participants: after any sequence of
\* join-room events every room's peersCount is at most 2, a third join to a
\* room that already holds two being rejected or ignored.
C25_AtMostTwo ==
    \A i \in 1..Len(rooms) :
        /\ rooms[i].peersCount <= 2
        /\ Len(rooms[i].users) <= 2

\* The host inserted first into a users Map: the entry of least position
\* among those marked isHost (NoConn when there is none).
Hosts(users) == {i \in 1..Len(users) : users[i].isHost}
FirstInsertedHost(users) ==
    IF Hosts(users) = {} THEN NoConn
    ELSE users[CHOOSE i \in Hosts(users) : \A j \in Hosts(users) : i <= j].id

\* C26: a join-room emits a ready-to-connect if and only if the peersCount
\* after the join is exactly 2 and some participant of the room is marked
\* isHost; then exactly one is emitted, addressed to the host inserted into
\* the room first and to nobody else; with a peersCount of 1 or of 3 or more,
\* or without a host, none is emitted.
C26_ReadyIffTwoWithHost ==
    req.op = "join-room" =>
        LET room  == getRoom(rooms, req.roomId)
            ready == Emitted(out, "ready-to-connect")
        IN /\ HasRoom(rooms, req.roomId)
           /\ ready # {} <=> (room.peersCount = 2 /\ Hosts(room.users) # {})
           /\ Cardinality(ready) <= 1
           /\ \A k \in ready :
                /\ out[k].to = {FirstInsertedHost(room.users)}
                /\ out[k].room = req.roomId

\* A third connection has joined a room of two that has a host: nothing is
\* sent to the host this time.
C26_Witness ==
    /\ req.op = "join-room"
    /\ HasRoom(rooms, req.roomId)
    /\ getRoom(rooms, req.roomId).peersCount = 3
    /\ Hosts(getRoom(rooms, req.roomId).users) # {}
    /\ Emitted(out, "ready-to-connect") = {}

\* C27: after the disconnect handler of connection c has run, c's id is in
\* the users Map of no room of the registry, whatever rooms it had joined;
\* the rooms that did not hold c are in the registry as they were, and the
\* handler creates no room.
C27_DisconnectClearsEverywhere ==
    [][req'.op = "disconnect" =>
         LET c == req'.c
         IN /\ \A j \in 1..Len(rooms') : c \notin UserIds(rooms'[j].users)
            /\ \A i \in 1..Len(rooms) :
                 c \notin UserIds(rooms[i].users) =>
                     \E j \in 1..Len(rooms') : rooms'[j] = rooms[i]
            /\ \A j \in 1..Len(rooms') :
                 \E i \in 1..Len(rooms) : rooms[i].roomId = rooms'[j].roomId ]_vars

\* A connection that was registered in one room has disconnected while the
\* registry holds another room, with a user, that it was not in.
C27_Witness ==
    /\ req.op = "disconnect"
    /\ Len(out) = 1
    /\ \E i \in 1..Len(rooms) :
         /\ rooms[i].roomId # out[1].room
         /\ rooms[i].users # <<>>
         /\ req.c \notin UserIds(rooms[i].users)

\* C29: relay isolation: an offer, answer or ice-candidate sent by a
\* connection that is not a participant of the room it names (neither in the
\* room's users Map nor in its transport room) is delivered to nobody.
C29_RelayIsolation ==
    (/\ req.op \in RelayEvents
     /\ req.roomId \notin Registered(rooms, req.c)
     /\ req.c \notin InTransportRoom(sockRooms, req.roomId))
        => \A k \in 1..Len(out) : out[k].to = {}

\* C30: registry and broadcast membership agree: for every room id the
\* connections a broadcast addressed to it reaches are exactly the ids of the
\* room's users Map (none when the registry has no such room).
C30_MembershipAgrees ==
    \A r \in RoomIds :
        InTransportRoom(sockRooms, r) =
            (IF HasRoom(rooms, r) THEN UserIds(getRoom(rooms, r).users) ELSE {})

\* What the player of p is asked to do for a playback action with the time
\* and the video that syncPlayer was given.
Applied(p, action) ==
    LET seek == Effect(p, "seekTo", "", 0, NoDesc, CurrentTime, "")
    IN CASE action = "play" -> <<seek, Does(p, "playVideo", "")>>
         [] action = "pause" -> <<seek, Does(p, "pauseVideo", "")>>
         [] action = "seek" -> <<seek>>
         [] action = "loadVideo" ->
                <<Effect(p, "loadVideoById", VideoId[1], 0, NoDesc, CurrentTime, "")>>

\* The message at the head of p's wire is the one the peer's
\* syncPlayer(action, {currentTime, videoId}) sent, and p handles it.
HandlesSync(p, action) ==
    /\ wire[p] # <<>>
    /\ Head(wire[p]) = Stringify(SyncMessage(action))
    /\ client[p].dataChannel = "open"
    /\ call' = Call(p, "message")

\* C28: a playback action sent with syncPlayer(action, {currentTime,
\* videoId}) over the open channel is applied on the other peer: onPlayerSync
\* gets the same action, currentTime and videoId, the page dispatches them as
\* a youtube-sync event, and the YouTubePlayer listener, when its player
\* exists, performs the matching operation (play: seek, then play; pause:
\* seek, then pause; seek: seek; loadVideo: load the video) and raises no
\* error.
C28_SyncIsApplied ==
    [][\A p \in Peers : \A action \in PlayerActions :
          HandlesSync(p, action) /\ client[p].player # "null" =>
              did' = << Effect(p, "onPlayerSync", action, 0, NoDesc,
                               CurrentTime, VideoId[1]),
                        Effect(p, "youtube-sync", action, 0, NoDesc,
                               CurrentTime, VideoId[1]) >>
                     \o Applied(p, action) ]_vars

\* The part of C28 up to the page: onPlayerSync and the youtube-sync event
\* carry the action, currentTime and videoId that were sent.
SyncReachesPage ==
    [][\A p \in Peers : \A action \in PlayerActions :
          HandlesSync(p, action) =>
              /\ Len(did') >= 2
              /\ did'[1] = Effect(p, "onPlayerSync", action, 0, NoDesc,
                                  CurrentTime, VideoId[1])
              /\ did'[2] = Effect(p, "youtube-sync", action, 0, NoDesc,
                                  CurrentTime, VideoId[1]) ]_vars

\* The listener applies a message whose detail has a member data.
NestedSyncIsApplied ==
    [][\A p \in Peers : \A action \in PlayerActions :
          (/\ wire[p] # <<>>
           /\ Head(wire[p]) = Stringify(NestedSyncMessage(action))
           /\ client[p].dataChannel = "open"
           /\ call' = Call(p, "message")
           /\ client[p].player # "null")
          => SubSeq(did', 3, Len(did')) = Applied(p, action) ]_vars

\* disconnect() has been called on the initialized instance p: only close()
\* gives a peer connection the state 'closed'.
Disconnected(p) == client[p].peerConnection = "closed"

\* C31: once disconnect() has been called on an initialized instance, every
\* later onConnectionChange call of that instance (from the socket's
\* disconnect event, the data channel's close event, or a handler that was
\* suspended in a negotiation) reports 'disconnected', never 'connecting' or
\* 'connected', and the instance emits no further offer or answer.
C31_DisconnectIsFinal ==
    [][\A p \in Peers :
          Disconnected(p) =>
              \A k \in 1..Len(did') :
                  did'[k].p = p =>
                      /\ did'[k].op = "onConnectionChange" =>
                             did'[k].arg = "disconnected"
                      /\ ~(did'[k].op = "emit" /\ did'[k].arg \in {"offer", "answer"})
      ]_vars

\* After disconnect() the data channel's close event has reported
\* 'disconnected', with a handler of a negotiation still suspended.
C31_Witness ==
    \E p \in Peers :
        /\ Disconnected(p)
        /\ call = Call(p, "close")
        /\ did = <<Report(p, "disconnected", 0)>>
        /\ client[p].chain # <<>>

SyncPlayerMessageChangesNothing ==
    [][\A p \in Peers : \A action \in PlayerActions :
          HandlesSync(p, action) =>
              /\ client'[p].player = client[p].player
              /\ client'[p].playerEvents = client[p].playerEvents ]_vars

\* A play or pause of the user is sent to the peer once.
LocalPlaybackIsSent ==
    [][\A p \in Peers :
          (/\ call' = Call(p, "onStateChange")
           /\ client[p].playerEvents # <<>>
           /\ Head(client[p].playerEvents).cause = "user"
           /\ client[p].dataChannel = "open")
          => Count(did', "dataChannel.send") = 1 ]_vars

====
